---- MODULE Spec2Model ----
(***************************************************************************)
(* Model of the Polymarket insights dashboard: the enrichment pipeline     *)
(* (data_processor.py), the mock data source (polymarket_client_mock.py)   *)
(* and the two callbacks of the page (callbacks.py, layout.py).            *)
(*                                                                         *)
(* Numbers.  A float is a pair <<n, d>>: the rational n/d in lowest terms  *)
(* with d > 0, or one of the IEEE specials <<1,0>> (+inf), <<-1,0>> (-inf) *)
(* and <<0,0>> (NaN, pandas' "undefined").  Arithmetic is exact: rounding  *)
(* of binary floating point is not modelled.                               *)
(*                                                                         *)
(* Logarithms.  Prices given to calculate_volatility are 0 or powers of    *)
(* two, and a logarithm is held in units of ln 2, so that it is an         *)
(* integer.  A volatility sqrt(v) * sqrt(W) is held as its square v * W    *)
(* (in units of (ln 2)^2); the square root is injective on the             *)
(* non-negative numbers, so equal squares are equal volatilities.          *)
(***************************************************************************)
EXTENDS Integers, Sequences, FiniteSets, TLC

VARIABLES pc, price_series, window, result, historical_df, market_id, processed_df,
          high_volume_threshold, returned_input, second_df, days,
          n_clicks, input_value, output_style, requests, details, outputs

vars == <<pc, price_series, window, result, historical_df, market_id, processed_df,
          high_volume_threshold, returned_input, second_df, days,
          n_clicks, input_value, output_style, requests, details, outputs>>

(* ------------------------------ bounds -------------------------------- *)
\* Longest sequence handed to a primitive.
MaxLen == 4
\* Largest window / period handed to a primitive.
MaxWindow == 5

(* ------------------------------ floats -------------------------------- *)
Abs(n) == IF n < 0 THEN -n ELSE n

Sgn(n) == IF n < 0 THEN -1 ELSE IF n > 0 THEN 1 ELSE 0

RECURSIVE GCD(_, _)
GCD(a, b) == IF b = 0 THEN a ELSE GCD(b, a % b)

\* n/d as a float: lowest terms, positive denominator; d = 0 gives a special.
Norm(n, d) ==
    IF d = 0 THEN <<Sgn(n), 0>>
    ELSE LET g == GCD(Abs(n), Abs(d))
             s == Sgn(d)
         IN  <<(s * n) \div g, (s * d) \div g>>

NaN == <<0, 0>>

Num(k) == <<k, 1>>

IsNaN(x) == x = NaN

IsInf(x) == x[2] = 0 /\ x[1] # 0

FNeg(x) == <<-x[1], x[2]>>

FAdd(x, y) ==
    IF IsNaN(x) \/ IsNaN(y) THEN NaN
    ELSE IF IsInf(x) /\ IsInf(y) THEN (IF x = y THEN x ELSE NaN)
    ELSE IF IsInf(x) THEN x
    ELSE IF IsInf(y) THEN y
    ELSE Norm(x[1] * y[2] + y[1] * x[2], x[2] * y[2])

FSub(x, y) == FAdd(x, FNeg(y))

FMul(x, y) ==
    IF IsNaN(x) \/ IsNaN(y) THEN NaN ELSE Norm(x[1] * y[1], x[2] * y[2])

FDiv(x, y) ==
    IF IsNaN(x) \/ IsNaN(y) THEN NaN
    ELSE IF y[1] < 0 THEN Norm(-(x[1] * y[2]), x[2] * (-y[1]))
    ELSE Norm(x[1] * y[2], x[2] * y[1])

\* x > y; every comparison with NaN is false.
FGt(x, y) ==
    IF IsNaN(x) \/ IsNaN(y) THEN FALSE
    ELSE IF IsInf(x) /\ IsInf(y) THEN x[1] > y[1]
    ELSE IF IsInf(x) THEN x[1] > 0
    ELSE IF IsInf(y) THEN y[1] < 0
    ELSE x[1] * y[2] > y[1] * x[2]

(* ------------------------------ series -------------------------------- *)
\* A pandas Series: row labels and values, position by position.  The other
\* Python objects a caller can pass instead carry the same fields.
MkSeries(index, vals) == [type |-> "Series", index |-> index, vals |-> vals]

\* pd.Series(dtype='float64')
EmptySeries == MkSeries(<<>>, <<>>)

\* pd.Series(index=idx, dtype='float64'): every value NaN.
NaNSeries(index) == MkSeries(index, [i \in 1..Len(index) |-> NaN])

RangeIndex(n) == [i \in 1..n |-> i]

\* What a call produces: a returned value, or a raised exception.
Returned(v) == [raised |-> "", value |-> v]

Raised(e) == [raised |-> e, value |-> EmptySeries]

NoResult == Returned(EmptySeries)

\* price_series.shift(k): the value k positions earlier, NaN at the start.
Shift(vals, k) == [i \in 1..Len(vals) |-> IF i > k THEN vals[i - k] ELSE NaN]

(* ------------------- rolling(window, min_periods=1) ------------------- *)
\* pandas computes rolling aggregates online: entering a window position adds
\* the new observation and removes the one that left the window; NaN is not
\* an observation.
MeanAdd(acc, v) ==
    IF IsNaN(v) THEN acc
    ELSE [nobs |-> acc.nobs + 1, sum |-> FAdd(acc.sum, v)]

MeanRemove(acc, v) ==
    IF IsNaN(v) THEN acc
    ELSE [nobs |-> acc.nobs - 1, sum |-> FSub(acc.sum, v)]

RECURSIVE MeanAcc(_, _, _)
MeanAcc(vals, w, i) ==
    IF i = 0 THEN [nobs |-> 0, sum |-> Num(0)]
    ELSE LET prev == MeanAcc(vals, w, i - 1)
             kept == IF i > w THEN MeanRemove(prev, vals[i - w]) ELSE prev
         IN  MeanAdd(kept, vals[i])

\* Mutant: min_periods left at its default, the window size.
RollingMean_FullWindowOnly(vals, w) ==
    [i \in 1..Len(vals) |->
        LET acc == MeanAcc(vals, w, i)
        IN  IF acc.nobs >= w THEN FDiv(acc.sum, Num(acc.nobs)) ELSE NaN]

\* .rolling(window=w, min_periods=1).mean()
RollingMean(vals, w) ==
    [i \in 1..Len(vals) |->
        LET acc == MeanAcc(vals, w, i)
        IN  IF acc.nobs >= 1 THEN FDiv(acc.sum, Num(acc.nobs)) ELSE NaN]

\* Welford's update of the mean and of the sum of squared deviations.
VarAdd(acc, v) ==
    IF IsNaN(v) THEN acc
    ELSE LET n == acc.nobs + 1
             delta == FSub(v, acc.mean)
             mean == FAdd(acc.mean, FDiv(delta, Num(n)))
         IN  [nobs |-> n, mean |-> mean,
              ssqdm |-> FAdd(acc.ssqdm, FMul(FSub(v, mean), delta))]

VarRemove(acc, v) ==
    IF IsNaN(v) THEN acc
    ELSE IF acc.nobs = 1 THEN [nobs |-> 0, mean |-> Num(0), ssqdm |-> Num(0)]
    ELSE LET n == acc.nobs - 1
             delta == FSub(v, acc.mean)
             mean == FSub(acc.mean, FDiv(delta, Num(n)))
         IN  [nobs |-> n, mean |-> mean,
              ssqdm |-> FSub(acc.ssqdm, FMul(FSub(v, mean), delta))]

RECURSIVE VarAcc(_, _, _)
VarAcc(vals, w, i) ==
    IF i = 0 THEN [nobs |-> 0, mean |-> Num(0), ssqdm |-> Num(0)]
    ELSE LET prev == VarAcc(vals, w, i - 1)
             kept == IF i > w THEN VarRemove(prev, vals[i - w]) ELSE prev
         IN  VarAdd(kept, vals[i])

\* Delta degrees of freedom of Rolling.std: the sample standard deviation.
Ddof == 1

\* Mutant: the population standard deviation (ddof = 0).
RollingVar_Population(vals, w) ==
    LET prepared == [i \in 1..Len(vals) |-> IF IsInf(vals[i]) THEN NaN ELSE vals[i]]
    IN  [i \in 1..Len(vals) |->
            LET acc == VarAcc(prepared, w, i)
            IN  IF acc.nobs >= 1 THEN FDiv(acc.ssqdm, Num(acc.nobs)) ELSE NaN]

\* .rolling(window=w, min_periods=1).std(), squared.  Infinite values are
\* replaced by NaN before the aggregation; a window needs more than Ddof
\* observations.
RollingVar(vals, w) ==
    LET prepared == [i \in 1..Len(vals) |-> IF IsInf(vals[i]) THEN NaN ELSE vals[i]]
    IN  [i \in 1..Len(vals) |->
            LET acc == VarAcc(prepared, w, i)
            IN  IF acc.nobs >= 1 /\ acc.nobs > Ddof
                THEN FDiv(acc.ssqdm, Num(acc.nobs - Ddof))
                ELSE NaN]

(* ----------------------------- logarithm ------------------------------ *)
\* Largest magnitude of a base-2 exponent of a price ratio.
MaxExp == 2

RECURSIVE Pow2(_)
Pow2(k) == IF k = 0 THEN 1 ELSE 2 * Pow2(k - 1)

\* np.log, in units of ln 2, of a float that is special, zero, negative or a
\* power of two.
Log(x) ==
    IF IsNaN(x) THEN NaN
    ELSE IF IsInf(x) THEN (IF x[1] > 0 THEN x ELSE NaN)
    ELSE IF x[1] = 0 THEN <<-1, 0>>
    ELSE IF x[1] < 0 THEN NaN
    ELSE LET k == CHOOSE e \in (-MaxExp)..MaxExp :
                      IF e >= 0 THEN x = Num(Pow2(e)) ELSE x = <<1, Pow2(-e)>>
         IN  Num(k)

(* ----------------------------- primitives ----------------------------- *)
\* calculate_moving_average(price_series, window)
calculate_moving_average(ps, w) ==
    IF ps.type # "Series" THEN Returned(EmptySeries)
    ELSE IF Len(ps.vals) < 1 THEN Returned(NaNSeries(ps.index))
    ELSE Returned(MkSeries(ps.index, RollingMean(ps.vals, w)))

\* Mutant: the change over one position, whatever the period.
PctChange_OnePeriod(vals, periods) ==
    LET shifted == Shift(vals, 1)
    IN  [i \in 1..Len(vals) |-> FSub(FDiv(vals[i], shifted[i]), Num(1))]

\* Mutant: the ratio to the earlier value, without the subtraction of 1.
PctChange_Ratio(vals, periods) ==
    LET shifted == Shift(vals, periods)
    IN  [i \in 1..Len(vals) |-> FDiv(vals[i], shifted[i])]

\* Series.pct_change(periods): data / data.shift(periods) - 1.  The sequences
\* given to it hold no NaN, so its forward fill of missing values changes
\* nothing.
PctChange(vals, periods) ==
    LET shifted == Shift(vals, periods)
    IN  [i \in 1..Len(vals) |-> FSub(FDiv(vals[i], shifted[i]), Num(1))]

\* calculate_price_change_percentage(price_series, periods)
calculate_price_change_percentage(ps, periods) ==
    IF ps.type # "Series" THEN Returned(EmptySeries)
    ELSE IF Len(ps.vals) = 0 \/ Len(ps.vals) < periods
         THEN Returned(NaNSeries(ps.index))
    ELSE LET pct == PctChange(ps.vals, periods)
         IN  Returned(MkSeries(ps.index,
                 [i \in 1..Len(pct) |-> FMul(pct[i], Num(100))]))

\* Evaluating price_series.index and handing it to pd.Series(index=...): None
\* has no such attribute, a list's index is a bound method and not a
\* collection; a Series and a DataFrame have row labels.
IndexAttr(ps) ==
    IF ps.type = "NoneType" THEN Raised("AttributeError")
    ELSE IF ps.type = "list" THEN Raised("TypeError")
    ELSE Returned(NaNSeries(ps.index))

\* Mutant: no minimum length, as in calculate_moving_average.
calculate_volatility_NoLengthCheck(ps, w) ==
    IF ps.type # "Series" \/ Len(ps.vals) = 0
    THEN IndexAttr(ps)
    ELSE LET shifted == Shift(ps.vals, 1)
             log_returns == [i \in 1..Len(ps.vals) |-> Log(FDiv(ps.vals[i], shifted[i]))]
             variance == RollingVar(log_returns, w)
         IN  Returned(MkSeries(ps.index,
                 [i \in 1..Len(variance) |-> FMul(variance[i], Num(w))]))

\* calculate_volatility(price_series, window); values are squares, see above.
calculate_volatility(ps, w) ==
    IF ps.type # "Series" \/ Len(ps.vals) = 0 \/ Len(ps.vals) < w
    THEN IndexAttr(ps)
    ELSE LET shifted == Shift(ps.vals, 1)
             log_returns == [i \in 1..Len(ps.vals) |-> Log(FDiv(ps.vals[i], shifted[i]))]
             variance == RollingVar(log_returns, w)
         IN  Returned(MkSeries(ps.index,
                 [i \in 1..Len(variance) |-> FMul(variance[i], Num(w))]))

(* ------------------------- inputs of the primitives -------------------- *)
SeqsUpTo(S, n) == UNION {[1..k -> S] : k \in 0..n}

\* Prices for the moving average and the percentage change.
Prices == {Num(0), <<1, 4>>, <<1, 2>>, <<3, 5>>}

\* Prices for the volatility: zero and powers of two.
LogPrices == {Num(0), <<1, 4>>, <<1, 2>>, Num(1)}

\* A Series with the default row labels, and the non-Series objects.
ArgsOver(S) ==
    {MkSeries(RangeIndex(Len(v)), v) : v \in SeqsUpTo(S, MaxLen)}
    \cup {[type |-> t, index |-> RangeIndex(Len(v)), vals |-> v] :
            t \in {"list", "DataFrame"}, v \in SeqsUpTo(S, 1)}
    \cup {[type |-> "NoneType", index |-> <<>>, vals |-> <<>>]}

\* A local variable that is not bound, or bound to v.
Unset == [set |-> FALSE, value |-> NaN]

Bound(v) == [set |-> TRUE, value |-> v]

NoFrame == [type |-> "NoneType", index |-> <<>>, cols |-> <<>>]

\* The dashboard as layout.py builds it, before any callback has run, and
\* no call of the data source or of a second enrichment made.
NoDetails == [kind |-> "none"]

NoOutputs == [raised |-> "", kind |-> "none"]

dashboard == <<n_clicks, input_value, output_style, requests, details, outputs>>

AtRest ==
    /\ returned_input = FALSE
    /\ second_df = Returned(NoFrame)
    /\ days = 0
    /\ n_clicks = 0
    /\ input_value = ""
    /\ output_style = "none"
    /\ requests = <<>>
    /\ details = NoDetails
    /\ outputs = NoOutputs

InitPrimOver(S) ==
    /\ pc = "start"
    /\ price_series \in ArgsOver(S)
    /\ window \in 1..MaxWindow
    /\ result = NoResult
    /\ historical_df = NoFrame
    /\ market_id = ""
    /\ processed_df = Returned(NoFrame)
    /\ high_volume_threshold = Unset
    /\ AtRest

InitPrim == InitPrimOver(Prices)

InitVolatility == InitPrimOver(LogPrices)

PipelineUnchanged ==
    UNCHANGED <<historical_df, market_id, processed_df, high_volume_threshold,
                returned_input, second_df, days, dashboard>>

CalculateMovingAverage ==
    /\ pc = "start"
    /\ result' = calculate_moving_average(price_series, window)
    /\ pc' = "moving_average"
    /\ UNCHANGED <<price_series, window>>
    /\ PipelineUnchanged

CalculatePriceChangePercentage ==
    /\ pc = "start"
    /\ result' = calculate_price_change_percentage(price_series, window)
    /\ pc' = "price_change_percentage"
    /\ UNCHANGED <<price_series, window>>
    /\ PipelineUnchanged

CalculateVolatility ==
    /\ pc = "start"
    /\ result' = calculate_volatility(price_series, window)
    /\ pc' = "volatility"
    /\ UNCHANGED <<price_series, window>>
    /\ PipelineUnchanged

NextPrim == CalculateMovingAverage \/ CalculatePriceChangePercentage

SpecPrim == InitPrim /\ [][NextPrim]_vars

NextVolatility == CalculateVolatility

SpecVolatility == InitVolatility /\ [][NextVolatility]_vars

(* ------------------------- constant sequences -------------------------- *)
ConstantPrices == Prices \cup LogPrices

\* A Series that holds the same price at every position.
ConstantSeries ==
    {MkSeries(RangeIndex(n), [i \in 1..n |-> c]) :
        n \in 0..MaxLen, c \in ConstantPrices}

InitConstant ==
    /\ pc = "start"
    /\ price_series \in ConstantSeries
    /\ window \in 1..MaxWindow
    /\ result = NoResult
    /\ historical_df = NoFrame
    /\ market_id = ""
    /\ processed_df = Returned(NoFrame)
    /\ high_volume_threshold = Unset
    /\ AtRest

NextConstant ==
    CalculateMovingAverage \/ CalculatePriceChangePercentage \/ CalculateVolatility

SpecConstant == InitConstant /\ [][NextConstant]_vars

(* ----------------------------- DataFrame ------------------------------ *)
\* Most rows of a frame given to process_market_data.
MaxRows == 3

\* A pandas DataFrame: row labels, and for every column its values in row
\* order.  A date cell is a calendar day held as a datetime64 or as text.
MkFrame(index, cols) == [type |-> "DataFrame", index |-> index, cols |-> cols]

NoCols == [c \in {} |-> <<>>]

\* pd.DataFrame()
EmptyFrame == MkFrame(<<>>, NoCols)

ReturnedFrame(df) == [raised |-> "", value |-> df]

RaisedFrame(e) == [raised |-> e, value |-> NoFrame]

Columns(df) == DOMAIN df.cols

\* DataFrame.empty: some axis has length 0.
FrameEmpty(df) == Len(df.index) = 0 \/ Columns(df) = {}

\* df[c]: the column as a Series carrying the frame's row labels.
Column(df, c) == MkSeries(df.index, df.cols[c])

\* df[c] = series: the values are aligned on the row labels; a label the
\* series lacks gets NaN.
AssignSeries(df, c, s) ==
    LET aligned == [i \in 1..Len(df.index) |->
                       IF \E k \in 1..Len(s.index) : s.index[k] = df.index[i]
                       THEN s.vals[CHOOSE k \in 1..Len(s.index) : s.index[k] = df.index[i]]
                       ELSE NaN]
    IN  MkFrame(df.index, [d \in Columns(df) \cup {c} |->
                              IF d = c THEN aligned ELSE df.cols[d]])

\* df[c] = scalar: the same value in every row.
AssignScalar(df, c, v) ==
    MkFrame(df.index, [d \in Columns(df) \cup {c} |->
                          IF d = c THEN [i \in 1..Len(df.index) |-> v] ELSE df.cols[d]])

\* pd.to_datetime on a date cell: text is parsed to the datetime64 of its day.
ToDatetime(cell) == [fmt |-> "datetime64", day |-> cell.day]

\* df.sort_values(by=c) for datetime64 cells that are pairwise distinct: the
\* rows, each with its label, in increasing order of the key.
SortValues(df, c) ==
    LET n == Len(df.index)
        key == df.cols[c]
        Rank(j) == 1 + Cardinality({k \in 1..n : key[k].day < key[j].day})
        order == [r \in 1..n |-> CHOOSE j \in 1..n : Rank(j) = r]
    IN  MkFrame([r \in 1..n |-> df.index[order[r]]],
                [d \in Columns(df) |-> [r \in 1..n |-> df.cols[d][order[r]]]])

(* --------------------------- high volume day --------------------------- *)
\* The values in increasing order, repetitions kept.
SortedVals(vals) ==
    [r \in 1..Len(vals) |->
        CHOOSE v \in {vals[i] : i \in 1..Len(vals)} :
            /\ Cardinality({i \in 1..Len(vals) : FGt(v, vals[i])}) < r
            /\ Cardinality({i \in 1..Len(vals) : ~FGt(vals[i], v)}) >= r]

\* Mutant: interpolation 'lower', the order statistic below the position.
Quantile_Lower(vals, q) ==
    LET pos == FMul(Num(Len(vals) - 1), q)
    IN  SortedVals(vals)[(pos[1] \div pos[2]) + 1]

\* Series.quantile(q), linear interpolation between the two order statistics
\* around position (n - 1) * q.
Quantile(vals, q) ==
    LET sorted == SortedVals(vals)
        pos == FMul(Num(Len(vals) - 1), q)
        lo == pos[1] \div pos[2]
        frac == FSub(pos, Num(lo))
    IN  IF frac = Num(0) THEN sorted[lo + 1]
        ELSE FAdd(sorted[lo + 1],
                  FMul(FSub(sorted[lo + 2], sorted[lo + 1]), frac))

\* The quantile of the volumes above which a day is a high-volume day.
HighVolumeQuantile == <<4, 5>>

\* pd.to_numeric(errors='coerce') on a float column: the floats themselves.
ToNumeric(vals) == vals

FillNa(vals, v) == [i \in 1..Len(vals) |-> IF IsNaN(vals[i]) THEN v ELSE vals[i]]

NUnique(vals) == Cardinality({vals[i] : i \in 1..Len(vals)} \ {NaN})

VolumeCol(id) == id \o "_volume"

\* Mutant: the threshold is computed without the check for variation.
HighVolume_NoVariationCheck(df, id) ==
    IF VolumeCol(id) \in Columns(df) /\ Len(df.cols[VolumeCol(id)]) # 0
    THEN LET numeric_volume == FillNa(ToNumeric(df.cols[VolumeCol(id)]), Num(0))
             threshold == Quantile(numeric_volume, HighVolumeQuantile)
         IN  [threshold |-> Bound(threshold),
              frame |-> AssignSeries(df, "high_volume_day",
                           MkSeries(df.index,
                               [i \in 1..Len(numeric_volume) |->
                                   FGt(numeric_volume[i], threshold)]))]
    ELSE [threshold |-> Unset, frame |-> AssignScalar(df, "high_volume_day", FALSE)]

\* The volume block of process_market_data on the copied, sorted frame: the
\* threshold it binds, if any, and what it assigns to high_volume_day.
HighVolume(df, id) ==
    IF VolumeCol(id) \in Columns(df) /\ Len(df.cols[VolumeCol(id)]) # 0
    THEN LET numeric_volume == FillNa(ToNumeric(df.cols[VolumeCol(id)]), Num(0))
         IN  IF Len(numeric_volume) # 0 /\ NUnique(numeric_volume) > 1
             THEN LET threshold == Quantile(numeric_volume, HighVolumeQuantile)
                  IN  [threshold |-> Bound(threshold),
                       frame |-> AssignSeries(df, "high_volume_day",
                                    MkSeries(df.index,
                                        [i \in 1..Len(numeric_volume) |->
                                            FGt(numeric_volume[i], threshold)]))]
             ELSE [threshold |-> Unset,
                   frame |-> AssignScalar(df, "high_volume_day", FALSE)]
    ELSE [threshold |-> Unset, frame |-> AssignScalar(df, "high_volume_day", FALSE)]

(* ------------------------- process_market_data ------------------------- *)
MaShortWindow == 7
MaLongWindow == 30
PctChangePeriods == 1
VolatilityWindow == 14

YesPriceCol(id) == id \o "_yes_price"

\* Mutant: the dates are converted but the rows are left in the given order.
Prepared_NoSort(df) ==
    IF "date" \in Columns(df)
    THEN MkFrame(df.index,
             [d \in Columns(df) |->
                 IF d = "date"
                 THEN [i \in 1..Len(df.index) |-> ToDatetime(df.cols[d][i])]
                 ELSE df.cols[d]])
    ELSE df

\* The copy with its dates converted and its rows sorted by date.
Prepared(df) ==
    IF "date" \in Columns(df)
    THEN SortValues(MkFrame(df.index,
                        [d \in Columns(df) |->
                            IF d = "date"
                            THEN [i \in 1..Len(df.index) |-> ToDatetime(df.cols[d][i])]
                            ELSE df.cols[d]]),
                    "date")
    ELSE df

\* processed_df[c] = <call>: an exception of the call leaves the function.
Attach(acc, c, res) ==
    IF acc.raised # "" THEN acc
    ELSE IF res.raised # "" THEN RaisedFrame(res.raised)
    ELSE ReturnedFrame(AssignSeries(acc.value, c, res.value))

\* Whether the call gets past both early returns.
Processes(df, id) ==
    /\ df.type = "DataFrame"
    /\ ~FrameEmpty(df)
    /\ YesPriceCol(id) \in Columns(df)

\* The derived price columns, attached in the order of the source.
WithPriceColumns(df, id) ==
    LET yes_price_col == YesPriceCol(id)
        price == Column(df, yes_price_col)
        a == Attach(ReturnedFrame(df), yes_price_col \o "_7d_ma",
                    calculate_moving_average(price, MaShortWindow))
        b == Attach(a, yes_price_col \o "_30d_ma",
                    calculate_moving_average(price, MaLongWindow))
        c == Attach(b, yes_price_col \o "_1d_pct_change",
                    calculate_price_change_percentage(price, PctChangePeriods))
    IN  Attach(c, yes_price_col \o "_14d_volatility",
               calculate_volatility(price, VolatilityWindow))

\* Mutant: the alternative the source's comment names, pd.DataFrame() when
\* the price column is missing.
process_market_data_EmptyOnMissingColumn(df, id) ==
    IF df.type # "DataFrame" \/ FrameEmpty(df) THEN ReturnedFrame(EmptyFrame)
    ELSE IF YesPriceCol(id) \notin Columns(df) THEN ReturnedFrame(EmptyFrame)
    ELSE LET priced == WithPriceColumns(Prepared(df), id)
         IN  IF priced.raised # "" THEN priced
             ELSE ReturnedFrame(HighVolume(priced.value, id).frame)

\* Mutant: an empty or non-DataFrame input is rejected with an exception.
process_market_data_RaiseOnEmpty(df, id) ==
    IF df.type # "DataFrame" \/ FrameEmpty(df) THEN RaisedFrame("ValueError")
    ELSE IF YesPriceCol(id) \notin Columns(df) THEN ReturnedFrame(df)
    ELSE LET priced == WithPriceColumns(Prepared(df), id)
         IN  IF priced.raised # "" THEN priced
             ELSE ReturnedFrame(HighVolume(priced.value, id).frame)

\* Mutant: a history shorter than the longest window is answered with an
\* empty frame instead of undefined cells.
process_market_data_EmptyOnShortHistory(df, id) ==
    IF df.type # "DataFrame" \/ FrameEmpty(df) THEN ReturnedFrame(EmptyFrame)
    ELSE IF YesPriceCol(id) \notin Columns(df) THEN ReturnedFrame(df)
    ELSE IF Len(df.index) < MaLongWindow THEN ReturnedFrame(EmptyFrame)
    ELSE LET priced == WithPriceColumns(Prepared(df), id)
         IN  IF priced.raised # "" THEN priced
             ELSE ReturnedFrame(HighVolume(priced.value, id).frame)

\* Mutant: the derived price columns are computed from the caller's column,
\* in the order the rows were given, and aligned onto the sorted copy.
process_market_data_PricesFromInput(df, id) ==
    IF df.type # "DataFrame" \/ FrameEmpty(df) THEN ReturnedFrame(EmptyFrame)
    ELSE IF YesPriceCol(id) \notin Columns(df) THEN ReturnedFrame(df)
    ELSE LET yes_price_col == YesPriceCol(id)
             price == Column(df, yes_price_col)
             a == Attach(ReturnedFrame(Prepared(df)), yes_price_col \o "_7d_ma",
                         calculate_moving_average(price, MaShortWindow))
             b == Attach(a, yes_price_col \o "_30d_ma",
                         calculate_moving_average(price, MaLongWindow))
             c == Attach(b, yes_price_col \o "_1d_pct_change",
                         calculate_price_change_percentage(price, PctChangePeriods))
             priced == Attach(c, yes_price_col \o "_14d_volatility",
                              calculate_volatility(price, VolatilityWindow))
         IN  IF priced.raised # "" THEN priced
             ELSE ReturnedFrame(HighVolume(priced.value, id).frame)

\* process_market_data(historical_df, market_id)
process_market_data(df, id) ==
    IF df.type # "DataFrame" \/ FrameEmpty(df) THEN ReturnedFrame(EmptyFrame)
    ELSE IF YesPriceCol(id) \notin Columns(df) THEN ReturnedFrame(df)
    ELSE LET priced == WithPriceColumns(Prepared(df), id)
         IN  IF priced.raised # "" THEN priced
             ELSE ReturnedFrame(HighVolume(priced.value, id).frame)

\* Mutant: processed_df = historical_df, a second name for the caller's
\* frame instead of a copy of it.
Copy_SameObject(df) == [frame |-> df, is_input |-> TRUE]

\* historical_df.copy(): a new object that holds what the caller's frame
\* holds.
Copy(df) == [frame |-> df, is_input |-> FALSE]

\* What the caller's frame holds when the call returns `out`.  Column
\* assignments write into the object processed_df names; sort_values
\* returns a new object and rebinds the name, so later writes go to that
\* one.
InputAfter(df, id, out) ==
    IF ~Processes(df, id) THEN df
    ELSE LET local == Copy(df)
         IN  IF ~local.is_input THEN df
             ELSE IF "date" \in Columns(df)
             THEN MkFrame(df.index,
                      [d \in Columns(df) |->
                          IF d = "date"
                          THEN [i \in 1..Len(df.index) |-> ToDatetime(df.cols[d][i])]
                          ELSE df.cols[d]])
             ELSE IF out.raised = "" THEN out.value ELSE df

\* Whether the object the call returns is the caller's frame: not the new
\* pd.DataFrame() of the first return, historical_df itself at the second,
\* and at the last whatever processed_df names by then.
ReturnsInput(df, id) ==
    IF df.type # "DataFrame" \/ FrameEmpty(df) THEN FALSE
    ELSE IF YesPriceCol(id) \notin Columns(df) THEN TRUE
    ELSE Copy(df).is_input /\ "date" \notin Columns(df)

\* The local high_volume_threshold when the call returns.
ThresholdOf(df, id) ==
    IF ~Processes(df, id) THEN Unset
    ELSE LET priced == WithPriceColumns(Prepared(df), id)
         IN  IF priced.raised # "" THEN Unset
             ELSE HighVolume(priced.value, id).threshold

(* --------------------- inputs of process_market_data ------------------- *)
MarketIds == {"market1", "market2"}

\* The market the data source built the frame for.
Owner == "market1"

DateFormats == {"datetime64", "str"}

FramePrices == {<<1, 4>>, <<1, 2>>}

FrameVolumes == {Num(10), Num(100)}

Perms(n) == {p \in [1..n -> 1..n] : \A i, j \in 1..n : p[i] = p[j] => i = j}

\* no_price = round(1 - yes_price, 2), as the data source fills it; the prices
\* used here have two decimals, and the rounding leaves them alone.
NoPrice(yes) == [i \in 1..Len(yes) |-> FSub(Num(1), yes[i])]

\* No date column, or pairwise distinct days in any row order.
DateCols(n) ==
    {NoCols} \cup
    {"date" :> [i \in 1..n |-> [fmt |-> f, day |-> p[i]]] :
        p \in Perms(n), f \in DateFormats}

PriceColsOver(n, P) ==
    {(YesPriceCol(Owner) :> y) @@ ((Owner \o "_no_price") :> NoPrice(y)) :
        y \in [1..n -> P]}

PriceCols(n) == {NoCols} \cup PriceColsOver(n, FramePrices)

VolumeColsOver(n, V) == {NoCols} \cup {VolumeCol(Owner) :> v : v \in [1..n -> V]}

VolumeCols(n) == VolumeColsOver(n, FrameVolumes)

\* The frames of the given row counts whose date, price and volume columns
\* are drawn from DC[n], PC[n] and VC[n].
Frames(rows, DC, PC, VC) ==
    UNION {{MkFrame(RangeIndex(n), d @@ y @@ v) :
               d \in DC[n], y \in PC[n], v \in VC[n]} :
           n \in rows}

InitOver(frames) ==
    /\ pc = "start"
    /\ price_series = EmptySeries
    /\ window = 1
    /\ result = NoResult
    /\ historical_df \in frames \cup {NoFrame}
    /\ market_id \in MarketIds
    /\ processed_df = ReturnedFrame(NoFrame)
    /\ high_volume_threshold = Unset
    /\ AtRest

Init ==
    InitOver(Frames(0..MaxRows,
                    [n \in 0..MaxRows |-> DateCols(n)],
                    [n \in 0..MaxRows |-> PriceCols(n)],
                    [n \in 0..MaxRows |-> VolumeCols(n)]))

ProcessMarketData ==
    /\ pc = "start"
    /\ processed_df' = process_market_data(historical_df, market_id)
    /\ high_volume_threshold' = ThresholdOf(historical_df, market_id)
    /\ historical_df' = InputAfter(historical_df, market_id, processed_df')
    /\ returned_input' = ReturnsInput(historical_df, market_id)
    /\ pc' = "done"
    /\ UNCHANGED <<price_series, window, result, market_id, second_df, days,
                   dashboard>>

Next == ProcessMarketData

Spec == Init /\ [][Next]_vars

(* ----------------------- enriching a second time ---------------------- *)
\* The five columns the enrichment adds for the market.
DerivedColumns(id) ==
    {YesPriceCol(id) \o "_7d_ma", YesPriceCol(id) \o "_30d_ma",
     YesPriceCol(id) \o "_1d_pct_change", YesPriceCol(id) \o "_14d_volatility",
     "high_volume_day"}

\* df.drop(columns=<derived>): the rows of a result with the columns the
\* data source delivered.
RawColumns(df, id) ==
    MkFrame(df.index, [c \in Columns(df) \ DerivedColumns(id) |-> df.cols[c]])

\* A second call on the frame the first call was given.
ProcessSameInputAgain ==
    /\ pc = "done"
    /\ second_df' = process_market_data(historical_df, market_id)
    /\ pc' = "again"
    /\ UNCHANGED <<price_series, window, result, historical_df, market_id,
                   processed_df, high_volume_threshold, returned_input, days,
                   dashboard>>

\* A call on the raw columns of the first call's result.
ReEnrichRawColumns ==
    /\ pc = "done"
    /\ processed_df.raised = ""
    /\ second_df' = process_market_data(RawColumns(processed_df.value, market_id),
                                        market_id)
    /\ pc' = "re_enriched"
    /\ UNCHANGED <<price_series, window, result, historical_df, market_id,
                   processed_df, high_volume_threshold, returned_input, days,
                   dashboard>>

NextTwice == ProcessMarketData \/ ProcessSameInputAgain \/ ReEnrichRawColumns

SpecTwice == Init /\ [][NextTwice]_vars

(* ------------------ inputs for the high-volume flag -------------------- *)
\* Most rows of a frame whose volumes are varied.
MaxVolumeRows == 5

\* Volumes, NaN for a missing one.
Volumes == {Num(10), Num(50), Num(100), NaN}

\* Days in increasing or in decreasing row order.
DateColsOrdered(n) ==
    {"date" :> [i \in 1..n |-> [fmt |-> "datetime64", day |-> i]],
     "date" :> [i \in 1..n |-> [fmt |-> "datetime64", day |-> n + 1 - i]]}

PriceColsConstant(n) == PriceColsOver(n, {<<1, 2>>})

VolumeColsAll(n) == VolumeColsOver(n, Volumes)

InitVolume ==
    InitOver(Frames(0..MaxVolumeRows,
                    [n \in 0..MaxVolumeRows |-> DateColsOrdered(n)],
                    [n \in 0..MaxVolumeRows |-> PriceColsConstant(n)],
                    [n \in 0..MaxVolumeRows |-> VolumeColsAll(n)]))

SpecVolume == InitVolume /\ [][Next]_vars

(* ----------------------- the mock data source ------------------------- *)
\* Most days of history asked of the data source.
MaxDays == 3

\* Market ids given to the data source: no id, predefined ids, and ids the
\* details store does not hold.
SourceIds == {"", "market1", "market2", "market7", "d"}

\* sum(ord(c) for c in market_id)
OrdSum(id) ==
    CASE id = "market1" -> 693
      [] id = "market2" -> 694
      [] id = "market7" -> 699
      [] id = "d" -> 100

\* np.clip(x, lo, hi)
Clip(x, lo, hi) == IF FGt(lo, x) THEN lo ELSE IF FGt(x, hi) THEN hi ELSE x

\* round(x, 2) of a finite x >= 0: the nearest hundredth, a tie to the even
\* one.
Round2(x) ==
    LET q == (100 * x[1]) \div x[2]
        r == (100 * x[1]) % x[2]
        cents == IF 2 * r < x[2] THEN q
                 ELSE IF 2 * r > x[2] THEN q + 1
                 ELSE IF q % 2 = 0 THEN q ELSE q + 1
    IN  Norm(cents, 100)

\* seed_val = sum(ord(c) for c in market_id) % 100 / 100.0 and the start
\* price np.clip(seed_val * 0.8 + 0.1, 0.1, 0.9).
StartPrice(id) ==
    LET seed_val == Norm(OrdSum(id) % 100, 100)
    IN  Clip(FAdd(FMul(seed_val, <<4, 5>>), <<1, 10>>), <<1, 10>>, <<9, 10>>)

\* Draws of random.normalvariate(0, 0.03): small steps and the far tails.
Changes == {Num(-1), <<-3, 100>>, <<1, 250>>, Num(1)}

\* Draws of np.random.randint: an ordinary day and a spike.
DrawnVolumes == {Num(150), Num(5000)}

\* The locals of get_mock_historical_prices after k iterations of its loop,
\* for every draw of the random numbers.
Walks(id, k) ==
    LET RECURSIVE W(_)
        W(j) ==
            IF j = 0
            THEN {[yes_price |-> StartPrice(id), yes_prices |-> <<>>,
                   no_prices |-> <<>>, volumes |-> <<>>]}
            ELSE {[yes_price |->
                       Round2(Clip(FAdd(w.yes_price, change), <<1, 100>>, <<99, 100>>)),
                   yes_prices |-> Append(w.yes_prices, w.yes_price),
                   no_prices |-> Append(w.no_prices, Round2(FSub(Num(1), w.yes_price))),
                   volumes |-> Append(w.volumes, v)] :
                      w \in W(j - 1), change \in Changes, v \in DrawnVolumes}
    IN  W(k)

\* pd.date_range(end=<yesterday>, periods=n, freq='D')
DateRange(n) == [i \in 1..n |-> [fmt |-> "datetime64", day |-> i]]

\* get_mock_historical_prices(market_id, days): the frames it can return.
get_mock_historical_prices(id, n) ==
    IF id = "" THEN {EmptyFrame}
    ELSE {MkFrame(RangeIndex(n),
              ("date" :> DateRange(n))
              @@ (YesPriceCol(id) :> w.yes_prices)
              @@ ((id \o "_no_price") :> w.no_prices)
              @@ (VolumeCol(id) :> w.volumes)) : w \in Walks(id, n)}

InitSource ==
    /\ pc = "start"
    /\ price_series = EmptySeries
    /\ window = 1
    /\ result = NoResult
    /\ historical_df = NoFrame
    /\ market_id \in SourceIds
    /\ processed_df = ReturnedFrame(NoFrame)
    /\ high_volume_threshold = Unset
    /\ returned_input = FALSE
    /\ second_df = Returned(NoFrame)
    /\ days \in 0..MaxDays
    /\ n_clicks = 0
    /\ input_value = ""
    /\ output_style = "none"
    /\ requests = <<>>
    /\ details = NoDetails
    /\ outputs = NoOutputs

GetMockHistoricalPrices ==
    /\ pc = "start"
    /\ historical_df' \in get_mock_historical_prices(market_id, days)
    /\ pc' = "fetched"
    /\ UNCHANGED <<price_series, window, result, market_id, processed_df,
                   high_volume_threshold, returned_input, second_df, days,
                   dashboard>>

NextSource == GetMockHistoricalPrices

SpecSource == InitSource /\ [][NextSource]_vars

(* --------------------------- market details --------------------------- *)
market_data_store ==
    ("market1" :> [name |-> "Will AI achieve AGI by 2030?",
                   category |-> "Technology",
                   base_yes |-> <<3, 10>>, volatility |-> <<1, 10>>])
    @@ ("market2" :> [name |-> "Who will win the next US Presidential Election?",
                      category |-> "Politics",
                      base_yes |-> <<1, 2>>, volatility |-> <<3, 20>>])
    @@ ("market3" :> [name |-> "Will Ethereum reach $10,000 by EOY?",
                      category |-> "Crypto",
                      base_yes |-> <<3, 20>>, volatility |-> <<1, 5>>])
    @@ ("market4" :> [name |-> "Will fusion power be commercially viable by 2040?",
                      category |-> "Science",
                      base_yes |-> <<1, 5>>, volatility |-> <<2, 25>>])
    @@ ("market5" :> [name |-> "Will global temperatures rise >2C by 2050?",
                      category |-> "Climate",
                      base_yes |-> <<13, 20>>, volatility |-> <<1, 20>>])

categories ==
    {"Politics", "Crypto", "Sports", "Technology", "Science", "Climate",
     "Entertainment"}

\* Draws of random.uniform(-v, v), as a fraction of v: the two ends.
UniformDraws == {Num(-1), Num(1)}

\* Draws of random.uniform(0.05, 0.95): the two ends.
GenericPriceDraws == {<<1, 20>>, <<19, 20>>}

\* The dict get_mock_market_details returns; a key the dict lacks is held
\* as "" (text) or NaN (number).  The liquidity, the 24h volume, the
\* resolution date and the description are drawn or fixed independently of
\* everything else and only displayed; they are left out.
Details(kind, id, name, category, yes, no, error, warning) ==
    [kind |-> kind, id |-> id, name |-> name, category |-> category,
     current_yes_price |-> yes, current_no_price |-> no,
     error |-> error, warning |-> warning]

\* get_mock_market_details(market_id): the dicts it can return.
get_mock_market_details(id) ==
    IF id = ""
    THEN {Details("error", "", "", "", NaN, NaN, "Market ID cannot be empty.", "")}
    ELSE IF id \in DOMAIN market_data_store
    THEN LET selected_market == market_data_store[id]
         IN  {LET current_yes_price ==
                      Round2(Clip(FAdd(selected_market.base_yes,
                                       FMul(u, selected_market.volatility)),
                                  <<1, 100>>, <<99, 100>>))
              IN  Details("predefined", id, selected_market.name,
                          selected_market.category, current_yes_price,
                          Round2(FSub(Num(1), current_yes_price)), "", "") :
                 u \in UniformDraws}
    ELSE {Details("generic", id, "Mock Market: " \o id \o " (Generic)", c,
                  Round2(y), Round2(FSub(Num(1), n)), "",
                  "Using generic mock data as market_id was not predefined.") :
             c \in categories, y \in GenericPriceDraws, n \in GenericPriceDraws}

(* ------------------- update_market_info_on_click ---------------------- *)
\* Days of history the callback asks of the data source.  The dashboard
\* asks for 180; the model asks for a few, fewer than every window.
HistoryDays == 1

\* Rows of the table of recent data: tail(7).
RecentRowCount == 7

\* callbacks.py imports dash, plotly.graph_objects, pandas, plotly.express
\* and the two project modules.  It does not import numpy: the name np is
\* unbound in the module, and evaluating it raises NameError.
NumpyImported == FALSE

Panel(kind, heading, text) == [kind |-> kind, heading |-> heading, text |-> text]

\* html.Div()
EmptyDiv == Panel("empty", "", "")

Figure(title, traces) == [title |-> title, traces |-> traces]

Trace(name, x, y) == [name |-> name, x |-> x, y |-> y]

\* go.Figure().update_layout(**empty_fig_layout, title_text=...)
PlaceholderFigure(title) == Figure(title, <<>>)

DataTable(kind, header, rows) == [kind |-> kind, header |-> header, rows |-> rows]

EmptyTable == DataTable("empty", <<>>, <<>>)

\* The four values the callback returns, or the exception it raises.
Outputs(panel, price_fig, volume_fig, table) ==
    [raised |-> "", kind |-> "returned", details_output_children |-> panel,
     price_fig |-> price_fig, volume_fig |-> volume_fig,
     processed_data_table_div |-> table]

RaisedOutputs(e) == [raised |-> e, kind |-> "raised"]

Cell(text, value) == [raised |-> "", text |-> text, value |-> value]

RaisedCell(e) == [raised |-> e, text |-> "", value |-> NaN]

\* f"{val:.<digits>f}": the nearest multiple of 1/scale, a tie to the even
\* one.
RoundTo(x, scale) ==
    LET q == (scale * x[1]) \div x[2]
        r == (scale * x[1]) % x[2]
        units == IF 2 * r < x[2] THEN q
                 ELSE IF 2 * r > x[2] THEN q + 1
                 ELSE IF q % 2 = 0 THEN q ELSE q + 1
    IN  Norm(units, scale)

\* The if/elif chain that formats one cell.  A date cell is a pd.Timestamp;
\* for any other cell the first test that applies names np.floating or
\* np.bool_.
FormatCell(id, col, val) ==
    IF col = "date" THEN Cell("%Y-%m-%d", Num(val.day))
    ELSE IF col = YesPriceCol(id) \o "_1d_pct_change"
    THEN IF ~NumpyImported THEN RaisedCell("NameError")
         ELSE IF IsNaN(val) THEN Cell("N/A", NaN)
         ELSE Cell(".2f%", RoundTo(val, 100))
    ELSE IF col = YesPriceCol(id) \o "_14d_volatility"
    THEN IF ~NumpyImported THEN RaisedCell("NameError")
         ELSE IF IsNaN(val) THEN Cell("N/A", NaN)
         ELSE Cell(".4f", RoundTo(val, 10000))
    ELSE IF ~NumpyImported THEN RaisedCell("NameError")
    ELSE IF col # "high_volume_day"
    THEN IF IsNaN(val) THEN Cell("N/A", NaN) ELSE Cell(".2f", RoundTo(val, 100))
    ELSE IF val THEN Cell("Yes", NaN) ELSE Cell("No", NaN)

\* The keys of display_cols_map, in their order.
DisplayCols(id) ==
    <<"date", YesPriceCol(id), YesPriceCol(id) \o "_7d_ma",
      YesPriceCol(id) \o "_1d_pct_change", YesPriceCol(id) \o "_14d_volatility",
      "high_volume_day">>

\* The row positions of processed_df[...].tail(7).iloc[::-1]: the last
\* seven, the newest first.
RecentPositions(n) ==
    [k \in 1..(IF n < RecentRowCount THEN n ELSE RecentRowCount) |-> n + 1 - k]

\* The table of recent data, or the exception the first failing cell
\* raises.
RecentTable(df, id) ==
    LET Existing(col) == col \in Columns(df)
        existing_display_cols == SelectSeq(DisplayCols(id), Existing)
        positions == RecentPositions(Len(df.index))
        cells == [i \in 1..Len(positions) |->
                     [j \in 1..Len(existing_display_cols) |->
                         FormatCell(id, existing_display_cols[j],
                                    df.cols[existing_display_cols[j]][positions[i]])]]
        failed == {<<i, j>> \in (1..Len(positions)) \X (1..Len(existing_display_cols)) :
                      cells[i][j].raised # ""}
        first == CHOOSE f \in failed :
                     \A g \in failed : f[1] < g[1] \/ (f[1] = g[1] /\ f[2] <= g[2])
    IN  IF existing_display_cols = <<>> THEN [raised |-> "", table |-> EmptyTable]
        ELSE IF failed # {}
        THEN [raised |-> cells[first[1]][first[2]].raised, table |-> EmptyTable]
        ELSE [raised |-> "",
              table |-> DataTable("table", existing_display_cols, cells)]

\* Series.isnull().all()
AllNull(vals) == \A i \in 1..Len(vals) : IsNaN(vals[i])

\* processed_df.get(c, pd.Series(dtype='float64'))
GetColumn(df, c) == IF c \in Columns(df) THEN df.cols[c] ELSE <<>>

\* The price chart: the two price traces, and each moving average that
\* exists and is not undefined everywhere.
PriceFigure(df, id) ==
    LET yes_price_col == YesPriceCol(id)
        yes_7d_ma_col == yes_price_col \o "_7d_ma"
        yes_30d_ma_col == yes_price_col \o "_30d_ma"
        date == df.cols["date"]
        MaTrace(c, name) ==
            IF c \in Columns(df) /\ ~AllNull(df.cols[c])
            THEN <<Trace(name, date, df.cols[c])>> ELSE <<>>
    IN  Figure("Price History",
               <<Trace("YES Price", date, GetColumn(df, yes_price_col)),
                 Trace("NO Price", date, GetColumn(df, id \o "_no_price"))>>
               \o MaTrace(yes_7d_ma_col, "YES 7D MA")
               \o MaTrace(yes_30d_ma_col, "YES 30D MA"))

\* The volume chart: one bar trace if the volume column exists.
VolumeFigure(df, id) ==
    IF VolumeCol(id) \in Columns(df)
    THEN Figure("Trading Volume",
                <<Trace("Volume", df.cols["date"], df.cols[VolumeCol(id)])>>)
    ELSE PlaceholderFigure("Volume Chart")

DetailsPanel(d) == Panel("details", d.name, "Category: " \o d.category)

\* error_msg = details.get("error", details.get("warning", ...))
MessagePanel(id, d) ==
    Panel("error", "Market: " \o id, IF d.error # "" THEN d.error ELSE d.warning)

\* The locals of one run of the callback and what it returns.
Outcome(d, h, p, t, o) ==
    [details |-> d, historical_df |-> h, processed_df |-> p,
     high_volume_threshold |-> t, outputs |-> o]

\* Lines 108-195: draw the charts of the enriched frame p and build the
\* table.
Rendered(id, d, h, p, t) ==
    LET table == RecentTable(p.value, id)
    IN  IF p.raised # "" THEN Outcome(d, h, p, t, RaisedOutputs(p.raised))
        ELSE IF FrameEmpty(p.value)
        THEN Outcome(d, h, p, t,
                     Outputs(DetailsPanel(d), PlaceholderFigure("Price Chart"),
                             PlaceholderFigure("Volume Chart"), EmptyTable))
        ELSE IF "date" \notin Columns(p.value)
        THEN Outcome(d, h, p, t, RaisedOutputs("KeyError"))
        ELSE IF table.raised # ""
        THEN Outcome(d, h, p, t, RaisedOutputs(table.raised))
        ELSE Outcome(d, h, p, t,
                     Outputs(DetailsPanel(d), PriceFigure(p.value, id),
                             VolumeFigure(p.value, id), table.table))

\* Line 106: enrich a copy of the history.
Render(id, d, h) ==
    {Rendered(id, d, h, p, t) :
        p \in {process_market_data(Copy(h).frame, id)},
        t \in {ThresholdOf(h, id)}}

\* Lines 96-104: the history, and the return when it is empty.
WithHistory(id, d) ==
    UNION {IF FrameEmpty(h)
           THEN {Outcome(d, h, ReturnedFrame(NoFrame), Unset,
                    Outputs(DetailsPanel(d),
                            PlaceholderFigure("No Historical Price Data for " \o id),
                            PlaceholderFigure("No Historical Volume Data for " \o id),
                            DataTable("message",
                                      <<"No historical data to process or display.">>,
                                      <<>>)))}
           ELSE Render(id, d, h) :
              h \in get_mock_historical_prices(id, HistoryDays)}

\* Mutant: only an "error" in the details stops the callback.
AfterDetails_ErrorOnly(id, d) ==
    IF d.error # ""
    THEN {Outcome(d, NoFrame, ReturnedFrame(NoFrame), Unset,
                  Outputs(MessagePanel(id, d), PlaceholderFigure("Price Chart"),
                          PlaceholderFigure("Volume Chart"), EmptyTable))}
    ELSE WithHistory(id, d)

\* Lines 56-94: details with an "error" or a "warning" end the callback with
\* a message; a details dict is never empty.
AfterDetails(id, d) ==
    IF d.error # "" \/ d.warning # ""
    THEN {Outcome(d, NoFrame, ReturnedFrame(NoFrame), Unset,
                  Outputs(MessagePanel(id, d), PlaceholderFigure("Price Chart"),
                          PlaceholderFigure("Volume Chart"), EmptyTable))}
    ELSE WithHistory(id, d)

\* update_market_info_on_click(n_clicks, market_id_state): the outcomes of
\* one run, for every draw of the data source.  None and "" are both "not
\* market_id"; the text box holds one of them until an id is entered.
update_market_info_on_click(clicks, market_id_state) ==
    IF market_id_state = ""
    THEN {Outcome(NoDetails, NoFrame, ReturnedFrame(NoFrame), Unset,
                  Outputs(Panel("message", "", "Please enter a Market ID to fetch data."),
                          PlaceholderFigure("Price Chart"),
                          PlaceholderFigure("Volume Chart"), EmptyTable))}
    ELSE UNION {AfterDetails(market_id_state, d) :
                   d \in get_mock_market_details(market_id_state)}

\* Mutant: the container is shown on odd click counts, a toggle.
toggle_output_visibility_Alternate(clicks) ==
    IF clicks % 2 = 1 THEN "block" ELSE "none"

\* toggle_output_visibility(n_clicks): the display of the style it returns.
toggle_output_visibility(clicks) == IF clicks > 0 THEN "block" ELSE "none"

(* ----------------------------- the dashboard --------------------------- *)
\* Most clicks of the fetch button.
MaxClicks == 2

\* What the text box can hold: nothing, a predefined id, another id.
DashboardIds == {"", "market1", "market7"}

\* A callback the browser has asked the server to run, with the values of
\* its Input and State at that moment.
Request(callback, clicks, id) ==
    [callback |-> callback, n_clicks |-> clicks, market_id_state |-> id]

\* The page as layout.py builds it: no click, an empty text box, the
\* container hidden.  toggle_output_visibility has no prevent_initial_call,
\* so Dash runs it once at page load; update_market_info_on_click has it.
\* Requests are served in the order they were made.
InitDashboard ==
    /\ pc = "dashboard"
    /\ price_series = EmptySeries
    /\ window = 1
    /\ result = NoResult
    /\ historical_df = NoFrame
    /\ market_id = ""
    /\ processed_df = ReturnedFrame(NoFrame)
    /\ high_volume_threshold = Unset
    /\ returned_input = FALSE
    /\ second_df = Returned(NoFrame)
    /\ days = 0
    /\ n_clicks = 0
    /\ input_value = ""
    /\ output_style = "none"
    /\ requests = <<Request("toggle_output_visibility", 0, "")>>
    /\ details = NoDetails
    /\ outputs = NoOutputs

notDashboard == <<pc, price_series, window, result, returned_input, second_df, days>>

EnterMarketId ==
    /\ input_value' \in DashboardIds \ {input_value}
    /\ UNCHANGED <<notDashboard, historical_df, market_id, processed_df,
                   high_volume_threshold, n_clicks, output_style, requests,
                   details, outputs>>

\* A click adds 1 to the button's n_clicks and triggers both callbacks.
ClickFetch ==
    /\ n_clicks < MaxClicks
    /\ n_clicks' = n_clicks + 1
    /\ requests' = requests \o
           <<Request("toggle_output_visibility", n_clicks + 1, ""),
             Request("update_market_info_on_click", n_clicks + 1, input_value)>>
    /\ UNCHANGED <<notDashboard, historical_df, market_id, processed_df,
                   high_volume_threshold, input_value, output_style, details,
                   outputs>>

ToggleOutputVisibility ==
    /\ requests # <<>>
    /\ Head(requests).callback = "toggle_output_visibility"
    /\ output_style' = toggle_output_visibility(Head(requests).n_clicks)
    /\ requests' = Tail(requests)
    /\ UNCHANGED <<notDashboard, historical_df, market_id, processed_df,
                   high_volume_threshold, n_clicks, input_value, details, outputs>>

UpdateMarketInfoOnClick ==
    /\ requests # <<>>
    /\ Head(requests).callback = "update_market_info_on_click"
    /\ \E o \in update_market_info_on_click(Head(requests).n_clicks,
                                             Head(requests).market_id_state) :
           /\ details' = o.details
           /\ historical_df' = o.historical_df
           /\ processed_df' = o.processed_df
           /\ high_volume_threshold' = o.high_volume_threshold
           /\ outputs' = o.outputs
    /\ market_id' = Head(requests).market_id_state
    /\ requests' = Tail(requests)
    /\ UNCHANGED <<notDashboard, n_clicks, input_value, output_style>>

NextDashboard ==
    EnterMarketId \/ ClickFetch \/ ToggleOutputVisibility \/ UpdateMarketInfoOnClick

SpecDashboard == InitDashboard /\ [][NextDashboard]_vars

(* ============================== claims ================================ *)
Done == pc = "done"

Output == processed_df.value

\* The input is a non-empty DataFrame without the market's price column.
MissingPriceColumn ==
    /\ historical_df.type = "DataFrame"
    /\ ~FrameEmpty(historical_df)
    /\ YesPriceCol(market_id) \notin Columns(historical_df)

\* C1 as stated: for a non-empty frame that lacks '<id>_yes_price',
\* process_market_data returns a zero-row result and does not raise.
C1_MissingColumnGivesEmptyResult ==
    (Done /\ MissingPriceColumn) =>
        (processed_df.raised = "" /\ Len(Output.index) = 0)

\* C1 amended: for a non-empty frame that lacks '<id>_yes_price',
\* process_market_data does not raise and returns the input frame as it is:
\* the same rows, labels and columns, and no derived column.
C1_MissingColumnReturnsInput ==
    (Done /\ MissingPriceColumn) => processed_df = ReturnedFrame(historical_df)

C1_Witness ==
    /\ Done
    /\ MissingPriceColumn
    /\ market_id # Owner
    /\ YesPriceCol(Owner) \in Columns(historical_df)
    /\ Len(Output.index) = MaxRows
    /\ "high_volume_day" \notin Columns(Output)

ZeroRows == historical_df.type = "DataFrame" /\ Len(historical_df.index) = 0

\* C2: for a zero-row frame and any market identifier, process_market_data
\* returns a zero-row result and does not raise.
C2_ZeroRowsGiveZeroRows ==
    (Done /\ ZeroRows) => (processed_df.raised = "" /\ Len(Output.index) = 0)

C2_Witness ==
    /\ Done
    /\ ZeroRows
    /\ YesPriceCol(market_id) \in Columns(historical_df)
    /\ processed_df = ReturnedFrame(EmptyFrame)

(* ------------------------- claims: primitives -------------------------- *)
Input == price_series.vals

Values == result.value.vals

IsSeriesInput == price_series.type = "Series"

Max(a, b) == IF a > b THEN a ELSE b

RECURSIVE SumOf(_, _, _)
SumOf(vals, lo, hi) ==
    IF lo > hi THEN Num(0) ELSE FAdd(vals[lo], SumOf(vals, lo + 1, hi))

\* C3: for every window W >= 1 and every non-empty sequence,
\* calculate_moving_average returns a sequence of the same length whose
\* position i is the arithmetic mean of the input positions
\* max(first, i - W + 1) .. i; the first output equals the first input and no
\* position is undefined.
C3_MovingAverageIsTrailingMean ==
    (pc = "moving_average" /\ IsSeriesInput /\ Len(Input) >= 1) =>
        /\ result.raised = ""
        /\ Len(Values) = Len(Input)
        /\ result.value.index = price_series.index
        /\ Values[1] = Input[1]
        /\ \A i \in 1..Len(Input) :
              LET lo == Max(1, i - window + 1)
              IN  /\ ~IsNaN(Values[i])
                  /\ FMul(Values[i], Num(i - lo + 1)) = SumOf(Input, lo, i)

C3_Witness ==
    /\ pc = "moving_average"
    /\ IsSeriesInput
    /\ window = 2
    /\ Input = <<Num(0), <<1, 2>>, <<1, 4>>, <<3, 5>>>>
    /\ Values = <<Num(0), <<1, 4>>, <<3, 8>>, <<17, 40>>>>

\* C4: for every period P >= 1 and every sequence,
\* calculate_price_change_percentage returns a sequence of the same length
\* whose position i is (value[i] - value[i-P]) / value[i-P] * 100 when P
\* positions precede it and undefined otherwise; P = 1 on [0.5, 0.5, 0.6]
\* gives [undefined, 0, 20].
C4_PercentageChange ==
    (pc = "price_change_percentage" /\ IsSeriesInput) =>
        /\ result.raised = ""
        /\ Len(Values) = Len(Input)
        /\ \A i \in 1..Len(Input) :
              IF i <= window THEN IsNaN(Values[i])
              ELSE Values[i] =
                       FMul(FDiv(FSub(Input[i], Input[i - window]), Input[i - window]),
                            Num(100))
        /\ (window = 1 /\ Input = <<<<1, 2>>, <<1, 2>>, <<3, 5>>>>)
               => Values = <<NaN, Num(0), Num(20)>>

C4_Witness ==
    /\ pc = "price_change_percentage"
    /\ IsSeriesInput
    /\ window = 1
    /\ Input = <<<<1, 2>>, <<1, 2>>, <<3, 5>>>>
    /\ Values = <<NaN, Num(0), Num(20)>>

\* A second case of C4: a period of two, with a history value of zero.
C4_WitnessPeriodTwo ==
    /\ pc = "price_change_percentage"
    /\ IsSeriesInput
    /\ window = 2
    /\ Input = <<<<1, 4>>, Num(0), <<1, 2>>, <<1, 2>>>>
    /\ Values = <<NaN, NaN, Num(100), <<1, 0>>>>

\* C7: calculate_volatility with window W on a sequence of fewer than W
\* elements returns an output of the same length in which every position is
\* undefined.
C7_ShortInputIsUndefined ==
    (pc = "volatility" /\ IsSeriesInput /\ Len(Input) < window) =>
        /\ result.raised = ""
        /\ Len(Values) = Len(Input)
        /\ \A i \in 1..Len(Input) : IsNaN(Values[i])

C7_Witness ==
    /\ pc = "volatility"
    /\ IsSeriesInput
    /\ window = Len(Input) + 1
    /\ Input = <<<<1, 2>>, <<1, 4>>, Num(1)>>
    /\ Values = <<NaN, NaN, NaN>>

AllPositive == \A i \in 1..Len(Input) : Input[i][1] > 0

EnoughPositive ==
    pc = "volatility" /\ IsSeriesInput /\ Len(Input) >= window /\ AllPositive

\* C8 as stated: for at least W positive values the output of
\* calculate_volatility has the length of the input and is undefined at the
\* first position only.
C8_UndefinedOnlyAtFirstPosition ==
    EnoughPositive =>
        /\ result.raised = ""
        /\ Len(Values) = Len(Input)
        /\ \A i \in 1..Len(Input) : IsNaN(Values[i]) <=> i = 1

\* The log return entering at position j >= 2, in units of ln 2.
LogReturn(j) == FSub(Log(Input[j]), Log(Input[j - 1]))

\* W times the sample variance (divisor n - 1) of the log returns lo .. hi.
ScaledSampleVariance(lo, hi) ==
    LET n == hi - lo + 1
        returns == [j \in 1..hi |-> IF j >= lo THEN LogReturn(j) ELSE Num(0)]
        squares == [j \in 1..hi |-> FMul(returns[j], returns[j])]
        total == SumOf(returns, lo, hi)
    IN  FMul(Num(window),
             FDiv(FSub(FMul(Num(n), SumOf(squares, lo, hi)), FMul(total, total)),
                  Num(n * (n - 1))))

\* C8 amended: for at least W positive values the output of
\* calculate_volatility has the length of the input; a position is undefined
\* exactly when its trailing window of W positions holds fewer than two log
\* returns (the first two positions, and every position when W = 1); every
\* other position holds sqrt(W) times the sample standard deviation of the
\* log returns in its window.
C8_UndefinedBelowTwoLogReturns ==
    EnoughPositive =>
        /\ result.raised = ""
        /\ Len(Values) = Len(Input)
        /\ \A i \in 1..Len(Input) :
              LET lo == Max(2, i - window + 1)
              IN  IF i - lo + 1 < 2 THEN IsNaN(Values[i])
                  ELSE Values[i] = ScaledSampleVariance(lo, i)

C8_Witness ==
    /\ EnoughPositive
    /\ window = 3
    /\ Input = <<<<1, 2>>, <<1, 4>>, Num(1), Num(1)>>
    /\ Values = <<NaN, NaN, <<27, 2>>, Num(7)>>

\* C9: calculate_moving_average, calculate_price_change_percentage and
\* calculate_volatility, given an input that is not a Series or is empty,
\* return an empty or all-undefined output and raise nothing.
C9_PrimitivesNeverRaise ==
    (pc # "start" /\ (~IsSeriesInput \/ Len(Input) = 0)) =>
        /\ result.raised = ""
        /\ \A i \in 1..Len(Values) : IsNaN(Values[i])

(* -------------------------- claims: volume ----------------------------- *)
Enriched == Done /\ Processes(historical_df, market_id)

HasDate == "date" \in Columns(historical_df)

HasVolume == VolumeCol(market_id) \in Columns(historical_df)

InputVolumes == historical_df.cols[VolumeCol(market_id)]

OutputVolumes == Output.cols[VolumeCol(market_id)]

Flags == Output.cols["high_volume_day"]

\* Every volume is a number, and they are not all the same.
VaryingVolumes ==
    /\ HasVolume
    /\ \A i \in 1..Len(InputVolumes) : ~IsNaN(InputVolumes[i])
    /\ \E i, j \in 1..Len(InputVolumes) : InputVolumes[i] # InputVolumes[j]

\* The k-th smallest of whole-numbered volumes.
KthSmallest(vols, k) ==
    CHOOSE v \in {vols[i][1] : i \in 1..Len(vols)} :
        /\ Cardinality({i \in 1..Len(vols) : vols[i][1] < v}) < k
        /\ Cardinality({i \in 1..Len(vols) : vols[i][1] <= v}) >= k

\* Five times the 80th percentile of vols: the point four fifths of the way
\* along the line through the order statistics, which lies between the k-th
\* and the (k+1)-th smallest when (k-1)/(n-1) <= 4/5 < k/(n-1).
FiveTimesEightiethPercentile(vols) ==
    LET n == Len(vols)
        k == CHOOSE j \in 1..(n - 1) :
                 5 * (j - 1) <= 4 * (n - 1) /\ 4 * (n - 1) < 5 * j
    IN  5 * KthSmallest(vols, k)
        + (4 * (n - 1) - 5 * (k - 1)) * (KthSmallest(vols, k + 1) - KthSmallest(vols, k))

\* C5: when the volume column exists and has more than one distinct value,
\* process_market_data sets high_volume_day to true for exactly the rows whose
\* volume is strictly greater than the 80th percentile (linear interpolation)
\* of all volumes, and to false for every other row, ties included; volumes
\* [10,10,10,10,100] flag the row with 100 only.
C5_HighVolumeAboveEightiethPercentile ==
    (Enriched /\ VaryingVolumes) =>
        /\ processed_df.raised = ""
        /\ Len(Flags) = Len(InputVolumes)
        /\ high_volume_threshold.set
        /\ FMul(Num(5), high_volume_threshold.value)
              = Num(FiveTimesEightiethPercentile(InputVolumes))
        /\ \A i \in 1..Len(Flags) :
              Flags[i] = (5 * OutputVolumes[i][1] > FiveTimesEightiethPercentile(InputVolumes))
        /\ InputVolumes = <<Num(10), Num(10), Num(10), Num(10), Num(100)>>
              => \A i \in 1..Len(Flags) : Flags[i] = (OutputVolumes[i] = Num(100))

C5_Witness ==
    /\ Enriched
    /\ HasVolume
    /\ HasDate
    /\ InputVolumes = <<Num(10), Num(10), Num(10), Num(10), Num(100)>>
    /\ historical_df.cols["date"][1].day = 1
    /\ Flags = <<FALSE, FALSE, FALSE, FALSE, TRUE>>
    /\ high_volume_threshold = Bound(Num(28))

\* A second case of C5: the threshold is itself a volume of the series, and
\* the rows that equal it are not flagged.
C5_WitnessTie ==
    /\ Enriched
    /\ HasVolume
    /\ InputVolumes = <<Num(100), Num(10), Num(100), Num(50), Num(100)>>
    /\ high_volume_threshold = Bound(Num(100))
    /\ Flags = <<FALSE, FALSE, FALSE, FALSE, FALSE>>

\* The volume column is absent, or all its values are missing, or all its
\* values are one number.
NoVolumeVariation ==
    \/ ~HasVolume
    \/ \A i \in 1..Len(InputVolumes) : IsNaN(InputVolumes[i])
    \/ \E v \in Volumes \ {NaN} : \A i \in 1..Len(InputVolumes) : InputVolumes[i] = v

\* C6: when the volume column is absent, its values are missing, or its values
\* are constant, process_market_data flags every row high_volume_day = false
\* and computes no threshold.
C6_NoVariationNoHighVolume ==
    (Enriched /\ NoVolumeVariation) =>
        /\ processed_df.raised = ""
        /\ Len(Flags) = Len(historical_df.index)
        /\ \A i \in 1..Len(Flags) : Flags[i] = FALSE
        /\ high_volume_threshold = Unset

C6_Witness ==
    /\ Enriched
    /\ HasVolume
    /\ InputVolumes = <<Num(50), Num(50), Num(50)>>
    /\ Flags = <<FALSE, FALSE, FALSE>>
    /\ high_volume_threshold = Unset

\* Further cases of C6: every volume missing, and no volume column.
C6_WitnessMissing ==
    /\ Enriched
    /\ HasVolume
    /\ InputVolumes = <<NaN, NaN>>
    /\ Flags = <<FALSE, FALSE>>

C6_WitnessAbsent == Enriched /\ ~HasVolume /\ Flags = <<FALSE, FALSE>>

(* --------------------------- claims: order ----------------------------- *)
\* The rows of a frame as a set: each row with the values of all its columns,
\* without its label and its position.
RowSet(df) == {[c \in Columns(df) |-> df.cols[c][i]] : i \in 1..Len(df.index)}

\* The frame with the rows of df in increasing date order and default labels.
InDateOrder(df) ==
    LET n == Len(df.index)
        order == CHOOSE p \in Perms(n) :
                     \A i \in 1..(n - 1) :
                         df.cols["date"][p[i]].day < df.cols["date"][p[i + 1]].day
    IN  MkFrame(RangeIndex(n),
                [c \in Columns(df) |-> [i \in 1..n |-> df.cols[c][order[i]]]])

\* C10: for a frame with unique dates in any row order, process_market_data
\* returns the rows in strictly increasing date order, and every row carries
\* the derived values it carries when the same rows are given in date order:
\* the derived values of a date are the same for every permutation.
C10_SortedAndOrderIndependent ==
    (Enriched /\ HasDate) =>
        /\ processed_df.raised = ""
        /\ Len(Output.index) = Len(historical_df.index)
        /\ \A i \in 1..(Len(Output.index) - 1) :
              Output.cols["date"][i].day < Output.cols["date"][i + 1].day
        /\ RowSet(Output)
              = RowSet(process_market_data(InDateOrder(historical_df), market_id).value)

C10_Witness ==
    /\ Enriched
    /\ HasDate
    /\ HasVolume
    /\ historical_df.cols["date"] =
           <<[fmt |-> "str", day |-> 3], [fmt |-> "str", day |-> 1],
             [fmt |-> "str", day |-> 2]>>
    /\ historical_df.cols[YesPriceCol(market_id)] = <<<<1, 2>>, <<1, 4>>, <<1, 2>>>>
    /\ Output.index = <<2, 3, 1>>
    /\ Output.cols[YesPriceCol(market_id) \o "_7d_ma"] = <<<<1, 4>>, <<3, 8>>, <<5, 12>>>>
    /\ Output.cols[YesPriceCol(market_id) \o "_1d_pct_change"] = <<NaN, Num(100), Num(0)>>
    /\ InputVolumes = <<Num(10), Num(100), Num(10)>>
    /\ Flags = <<TRUE, FALSE, FALSE>>

(* ------------------------------- C11 ---------------------------------- *)
AllNaN(vals) == \A i \in 1..Len(vals) : IsNaN(vals[i])

NoneNaN(vals) == \A i \in 1..Len(vals) : ~IsNaN(vals[i])

\* C11: for a non-empty frame that has the price column and fewer rows than
\* a window (down to one row), process_market_data does not raise and
\* returns as many rows as it was given, with the input's columns and all
\* five derived columns; what lacks history is undefined cell by cell: the
\* 14-day volatility everywhere, the 1-day change in the first row, while
\* both moving averages are defined in every row.
C11_ShortHistoryKeepsRowsAndColumns ==
    (Enriched /\ Len(historical_df.index) < VolatilityWindow) =>
        /\ processed_df.raised = ""
        /\ Len(Output.index) = Len(historical_df.index)
        /\ Columns(Output) =
               Columns(historical_df) \cup DerivedColumns(market_id)
        /\ \A c \in Columns(Output) :
               Len(Output.cols[c]) = Len(historical_df.index)
        /\ AllNaN(Output.cols[YesPriceCol(market_id) \o "_14d_volatility"])
        /\ IsNaN(Output.cols[YesPriceCol(market_id) \o "_1d_pct_change"][1])
        /\ NoneNaN(Output.cols[YesPriceCol(market_id) \o "_7d_ma"])
        /\ NoneNaN(Output.cols[YesPriceCol(market_id) \o "_30d_ma"])

\* A single observation is enriched into a single row.
C11_Witness ==
    /\ Enriched
    /\ Len(historical_df.index) = 1
    /\ Len(Output.index) = 1
    /\ DerivedColumns(market_id) \subseteq Columns(Output)

\* Three observations, fewer than the 7-day window, with a defined change
\* in the last row.
C11_WitnessThreeRows ==
    /\ Enriched
    /\ Len(historical_df.index) = 3
    /\ Len(Output.index) = 3
    /\ ~IsNaN(Output.cols[YesPriceCol(market_id) \o "_1d_pct_change"][3])

(* ------------------------------- C12 ---------------------------------- *)
\* C12: a call of process_market_data leaves the frame it was given as it
\* was, on every path: the same rows, labels, columns and cells, the date
\* cells unconverted and the rows unsorted; and when the call enriches, the
\* frame it returns is another object than the one it was given.
C12_InputUntouchedResultNew ==
    [][ProcessMarketData =>
          /\ historical_df' = historical_df
          /\ Processes(historical_df, market_id) => ~returned_input']_vars

\* An enriching call on unsorted text dates: the result is sorted and
\* converted, the input still holds the text dates in the given order.
C12_Witness ==
    /\ Enriched
    /\ HasDate
    /\ ~returned_input
    /\ Len(historical_df.index) = 3
    /\ \A i \in 1..3 : historical_df.cols["date"][i].fmt = "str"
    /\ InDateOrder(historical_df) # historical_df
    /\ Output.cols["date"] # historical_df.cols["date"]
    /\ Columns(historical_df) \cap DerivedColumns(market_id) = {}

\* The missing-column return hands back the caller's own frame.
C12_WitnessSameObject == Done /\ MissingPriceColumn /\ returned_input

(* ------------------------------- C13 ---------------------------------- *)
\* C13: a second call of process_market_data, on the same raw frame or on
\* the raw columns of the first call's result, returns what the first call
\* returned: the same rows in the same order with identical derived
\* columns, cell by cell.
C13_SecondCallGivesSameResult ==
    (pc \in {"again", "re_enriched"}) =>
        /\ second_df.raised = processed_df.raised
        /\ Len(second_df.value.index) = Len(Output.index)
        /\ Columns(second_df.value) = Columns(Output)
        /\ \A c \in Columns(Output) \cap DerivedColumns(market_id) :
               second_df.value.cols[c] = Output.cols[c]

\* Unsorted rows with two different prices are re-enriched from the sorted
\* raw columns of the first result; the change column has a defined cell.
C13_Witness ==
    /\ pc = "re_enriched"
    /\ Processes(historical_df, market_id)
    /\ HasDate
    /\ Len(historical_df.index) = 3
    /\ InDateOrder(historical_df) # historical_df
    /\ historical_df.cols[YesPriceCol(market_id)] = <<(<<1, 4>>), (<<1, 2>>), (<<1, 4>>)>>
    /\ DerivedColumns(market_id) \subseteq Columns(second_df.value)
    /\ ~IsNaN(second_df.value.cols[YesPriceCol(market_id) \o "_1d_pct_change"][2])

\* The same frame is enriched twice.
C13_WitnessSameInput ==
    /\ pc = "again"
    /\ Processes(historical_df, market_id)
    /\ Len(historical_df.index) = 3
    /\ DerivedColumns(market_id) \subseteq Columns(second_df.value)

(* ------------------------------- C14 ---------------------------------- *)
\* C14: for a sequence that holds the same value c at every position, the
\* moving average is c at every position; the percentage change is 0 where
\* it is defined, which is at the positions after the first `periods` ones
\* when c is not 0, and undefined elsewhere; the volatility is 0 where it
\* is defined, which is from the third position on when c is positive, W is
\* at least 2 and the sequence has at least W values, and undefined
\* elsewhere.
C14_ConstantSequence ==
    (pc # "start" /\ Len(Input) > 0) =>
        LET c == Input[1]
        IN  /\ result.raised = ""
            /\ Len(Values) = Len(Input)
            /\ pc = "moving_average" => \A i \in 1..Len(Input) : Values[i] = c
            /\ pc = "price_change_percentage" =>
                   \A i \in 1..Len(Input) :
                       IF i > window /\ c # Num(0)
                       THEN Values[i] = Num(0) ELSE IsNaN(Values[i])
            /\ pc = "volatility" =>
                   \A i \in 1..Len(Input) :
                       IF i >= 3 /\ c # Num(0) /\ Len(Input) >= window /\ window >= 2
                       THEN Values[i] = Num(0) ELSE IsNaN(Values[i])

\* The moving average of a constant sequence longer than its window.
C14_Witness ==
    /\ pc = "moving_average"
    /\ Input = <<(<<3, 5>>), (<<3, 5>>), (<<3, 5>>), (<<3, 5>>)>>
    /\ window = 2
    /\ Values = Input

\* The percentage change of a constant sequence: zero after the first
\* `periods` positions.
C14_WitnessChange ==
    /\ pc = "price_change_percentage"
    /\ Input = <<(<<1, 4>>), (<<1, 4>>), (<<1, 4>>), (<<1, 4>>)>>
    /\ window = 2
    /\ Values = <<NaN, NaN, Num(0), Num(0)>>

\* The volatility of a constant sequence: zero from the third position on.
C14_WitnessVolatility ==
    /\ pc = "volatility"
    /\ Input = <<(<<3, 5>>), (<<3, 5>>), (<<3, 5>>), (<<3, 5>>)>>
    /\ window = 3
    /\ Values = <<NaN, NaN, Num(0), Num(0)>>

(* ------------------------------- C15 ---------------------------------- *)
Fetched == pc = "fetched" /\ market_id # ""

YesPrices == historical_df.cols[YesPriceCol(market_id)]

NoPrices == historical_df.cols[market_id \o "_no_price"]

\* C15: in every frame get_mock_historical_prices returns for a non-empty
\* id, every row has no_price = 1 - yes_price, the first row included.
C15_NoPriceIsComplement ==
    Fetched =>
        \A i \in 1..Len(historical_df.index) :
            NoPrices[i] = FSub(Num(1), YesPrices[i])

\* From the second row on the two prices do add up to 1, and they do in the
\* first row when the start price is a whole number of hundredths.
SourceComplementAfterFirstRow ==
    Fetched =>
        \A i \in 1..Len(historical_df.index) :
            (i > 1 \/ Round2(StartPrice(market_id)) = StartPrice(market_id)) =>
                NoPrices[i] = FSub(Num(1), YesPrices[i])

\* get_mock_historical_prices("market1", days=1): yes 0.844, no 0.16.
SourceFirstRowOff ==
    /\ Fetched
    /\ market_id = "market1"
    /\ days = 1
    /\ YesPrices = <<(<<211, 250>>)>>
    /\ NoPrices = <<(<<4, 25>>)>>

(* ------------------------------- C16 ---------------------------------- *)
\* A run of the callback has ended.
CallbackRan == outputs.kind # "none"

\* The last run was for a predefined market and fetched a non-empty history.
PredefinedRun ==
    /\ CallbackRan
    /\ market_id \in DOMAIN market_data_store
    /\ details.kind = "predefined"
    /\ historical_df.type = "DataFrame"
    /\ ~FrameEmpty(historical_df)

\* C16: for a predefined market id and a non-empty history the callback
\* returns, without raising, the details panel, a price chart with at least
\* the two price traces, a volume chart with its trace, and a table of the
\* last (at most 7) enriched rows, the newest first, with "N/A" in the
\* cells that are undefined.
C16_PredefinedMarketIsRendered ==
    PredefinedRun =>
        /\ outputs.raised = ""
        /\ outputs.details_output_children.kind = "details"
        /\ Len(outputs.price_fig.traces) >= 2
        /\ Len(outputs.volume_fig.traces) = 1
        /\ outputs.processed_data_table_div.kind = "table"
        /\ LET rows == outputs.processed_data_table_div.rows
               n == Len(Output.index)
           IN  /\ Len(rows) = (IF n < RecentRowCount THEN n ELSE RecentRowCount)
               /\ \A k \in 1..Len(rows) :
                      /\ rows[k][1].value = Num(Output.cols["date"][n + 1 - k].day)
                      /\ rows[k][5].text = "N/A"

\* A click on the fetch button with "market1" in the text box: the history
\* is fetched and enriched, and the callback raises NameError.
CallbackRaisesNameError ==
    /\ PredefinedRun
    /\ market_id = "market1"
    /\ processed_df.raised = ""
    /\ Len(Output.index) = HistoryDays
    /\ outputs = RaisedOutputs("NameError")

(* ------------------------------- C17 ---------------------------------- *)
Fetching == historical_df.type = "DataFrame"

Enriching == processed_df.value.type = "DataFrame" \/ processed_df.raised # ""

\* C17: after a run of the callback, the history was fetched or enriched
\* only if the market id is not empty and the details carry neither an
\* "error" nor a "warning"; and for an empty id or an id that is not
\* predefined the run fetched and enriched nothing and returned a message
\* panel, the two placeholder figures and an empty table.
C17_FetchOnlyForValidDetails ==
    CallbackRan =>
        /\ (Fetching \/ Enriching) =>
               /\ market_id # ""
               /\ details.kind # "none"
               /\ details.error = "" /\ details.warning = ""
        /\ (market_id = "" \/ market_id \notin DOMAIN market_data_store) =>
               /\ ~Fetching /\ ~Enriching
               /\ outputs.raised = ""
               /\ outputs.details_output_children.kind =
                      (IF market_id = "" THEN "message" ELSE "error")
               /\ outputs.details_output_children.text =
                      (IF market_id = ""
                       THEN "Please enter a Market ID to fetch data."
                       ELSE "Using generic mock data as market_id was not predefined.")
               /\ outputs.price_fig = PlaceholderFigure("Price Chart")
               /\ outputs.volume_fig = PlaceholderFigure("Volume Chart")
               /\ outputs.processed_data_table_div = EmptyTable

\* A click with an id that is not predefined: the details carry a warning
\* and the run ends with the message.
C17_Witness ==
    /\ CallbackRan
    /\ market_id = "market7"
    /\ details.kind = "generic"
    /\ details.warning # ""
    /\ outputs.raised = ""
    /\ outputs.details_output_children.kind = "error"
    /\ ~Fetching

\* A click with nothing in the text box.
C17_WitnessEmptyId ==
    /\ CallbackRan
    /\ market_id = ""
    /\ outputs.raised = ""
    /\ outputs.details_output_children.kind = "message"

\* A click with a predefined id: the history is fetched and enriched.
C17_WitnessFetched ==
    /\ CallbackRan
    /\ market_id = "market1"
    /\ Fetching
    /\ Enriching
    /\ details.warning = ""

(* ------------------------------- C18 ---------------------------------- *)
\* No run of toggle_output_visibility is outstanding.
ToggleServed ==
    \A i \in 1..Len(requests) : requests[i].callback # "toggle_output_visibility"

\* C18: whenever every triggered run of toggle_output_visibility has been
\* served, the output container is hidden if the click count is 0 and shown
\* if it is greater; the count never decreases, and a container that is
\* shown is never hidden again.
C18_ShownOnceClicked ==
    /\ [](ToggleServed => (output_style = (IF n_clicks = 0 THEN "none" ELSE "block")))
    /\ [][n_clicks' >= n_clicks]_vars
    /\ [][output_style = "block" => output_style' = "block"]_vars

\* After the second click the container is still shown.
C18_Witness ==
    /\ n_clicks = 2
    /\ ToggleServed
    /\ output_style = "block"

\* Before the first click the container is hidden.
C18_WitnessHidden ==
    /\ n_clicks = 0
    /\ requests = <<>>
    /\ output_style = "none"

====
